---- MODULE Spec2Model ----
(***************************************************************************)
(* Model of the rust-gateway streaming route (routes/stream.rs), its       *)
(* unary chat route (routes/chat.rs), the upstream client                  *)
(* (proxy/grpc_client.rs) and the proxy routes (routes/tools.rs,           *)
(* routes/actions.rs).                                                     *)
(*                                                                         *)
(* Strings are sequences of one-character strings.  An Option<T> is the    *)
(* empty sequence (None) or a one-element sequence (Some).                 *)
(* A "frame sent" is one call of socket.send by the session; the answer    *)
(* of the transport to that call (ok or failed) is recorded beside it.     *)
(***************************************************************************)
EXTENDS Integers, Sequences, FiniteSets, TLC

\* ------------------------------------------------------------------ bounds
MaxLen == 4
MaxTurns == 2
NumConns == 2

Conns == 1..NumConns

\* ------------------------------------------------------------------ strings
Letters == {"a"}
Whitespace == {" ", "\t"}
Chars == Letters \cup Whitespace

RECURSIVE SeqsUpTo(_, _)
SeqsUpTo(S, n) ==
  IF n = 0 THEN {<<>>}
  ELSE LET shorter == SeqsUpTo(S, n - 1)
       IN shorter \cup {Append(s, x) : s \in {t \in shorter : Len(t) = n - 1}, x \in S}

Texts == SeqsUpTo(Chars, MaxLen)

IsWhitespace(ch) == ch \in Whitespace

\* str::split_whitespace().collect(): the maximal runs of non-whitespace, in
\* order; the k-th word runs from the k-th position that follows whitespace
\* (or opens the text) up to the last position before the next whitespace
SplitWhitespace(s) ==
  LET starts == {i \in 1..Len(s) :
                   ~IsWhitespace(s[i]) /\ (i = 1 \/ IsWhitespace(s[i - 1]))}
      StartOf(k) == CHOOSE i \in starts : Cardinality({j \in starts : j <= i}) = k
      EndOf(i) == CHOOSE j \in i..Len(s) :
                    /\ \A m \in i..j : ~IsWhitespace(s[m])
                    /\ j = Len(s) \/ IsWhitespace(s[j + 1])
  IN  [k \in 1..Cardinality(starts) |-> SubSeq(s, StartOf(k), EndOf(StartOf(k)))]

\* ------------------------------------------------------------------ wire shapes
None == <<>>
Some(x) == <<x>>

ReasoningUpdate(step, step_type, content) ==
  [step |-> step, step_type |-> step_type, content |-> content]

StreamChunk(chunk_type, delta, reasoning, artifact) ==
  [type |-> chunk_type, delta |-> delta, reasoning |-> reasoning,
   artifact |-> artifact, message |-> None]

\* format!(r#"{{"type":"error","message":"{}"}}"#, e)
ErrorFrame(e) ==
  [type |-> "error", delta |-> None, reasoning |-> None,
   artifact |-> None, message |-> Some(e)]

NumSteps == 3

StepContent(i) ==
  IF i = 0 THEN "Analyzing query"
  ELSE IF i = 1 THEN "Retrieving context" ELSE "Synthesizing response"

StepType(i) ==
  IF i = 0 THEN "analysis" ELSE IF i = 1 THEN "retrieval" ELSE "synthesis"

\* mutant: the step index is the loop index
ReasoningChunkZeroBased(i) ==
  StreamChunk("reasoning", None,
              Some(ReasoningUpdate(i, StepType(i), StepContent(i))), None)

ReasoningChunk(i) ==
  StreamChunk("reasoning", None,
              Some(ReasoningUpdate(i + 1, StepType(i), StepContent(i))), None)

\* mutant: no separating space before the later words
DeltaTextNoSpace(i, word) == word

DeltaText(i, word) == IF i = 0 THEN word ELSE <<" ">> \o word

DeltaChunk(i, word) == StreamChunk("delta", Some(DeltaText(i, word)), None, None)

DoneChunk == StreamChunk("done", None, None, None)

ReasoningDelayMs == 200

\* mutant: the delay grows with the word index
DeltaDelayMsNoWrap(i) == 30 + i

DeltaDelayMs(i) == 30 + (i % 50)

\* ------------------------------------------------------------------ JSON text
\* A text on the wire is a sequence of pieces: each character that matters
\* to JSON by itself, and runs of other characters.
Quote == "\""

Backslash == "\\"

\* serde_json's string escaping
RECURSIVE EscapeJson(_)
EscapeJson(s) ==
  IF s = <<>> THEN <<>>
  ELSE (IF Head(s) \in {Quote, Backslash} THEN <<Backslash, Head(s)>>
        ELSE IF Head(s) = "\t" THEN <<Backslash, "t">>
        ELSE <<Head(s)>>) \o EscapeJson(Tail(s))

JsonString(s) == <<Quote>> \o EscapeJson(s) \o <<Quote>>

JsonMember(key, value) == <<Quote, key, Quote, ":">> \o value

\* serde_json::to_string of a ReasoningUpdate
ReasoningToString(r) ==
  <<"{">> \o JsonMember("step", <<ToString(r.step)>>)
    \o <<",">> \o JsonMember("step_type", JsonString(<<r.step_type>>))
    \o <<",">> \o JsonMember("content", JsonString(<<r.content>>)) \o <<"}">>

\* serde_json::to_string(&chunk): the None fields are skipped; the artifact
\* field is None in every chunk handle_socket builds
ChunkToString(chunk) ==
  <<"{">> \o JsonMember("type", JsonString(<<chunk.type>>))
    \o (IF chunk.delta = None THEN <<>>
        ELSE <<",">> \o JsonMember("delta", JsonString(chunk.delta[1])))
    \o (IF chunk.reasoning = None THEN <<>>
        ELSE <<",">> \o JsonMember("reasoning", ReasoningToString(chunk.reasoning[1])))
    \o <<"}">>

\* format!(r#"{{"type":"error","message":"{}"}}"#, e): e is inserted as it is
FormatErrorFrame(e) ==
  <<"{">> \o JsonMember("type", <<Quote, "error", Quote>>)
    \o <<",">> \o JsonMember("message", <<Quote>> \o e \o <<Quote>>) \o <<"}">>

\* the text of the Message::Text a frame is sent as
WireText(frame) ==
  IF frame.type = "error" THEN FormatErrorFrame(frame.message[1])
  ELSE ChunkToString(frame)

\* ------------------------------------------------------------------ inbound text
Queries == {"q1", "q2"}
ConversationIds == {"c1"}

\* a JSON value of one inbound member: a string, or an array of objects
JsonText(str) == [string |-> str]
JsonArray(items) == [array |-> items]
IsJsonArray(v) == DOMAIN v = {"array"}

\* HistoryMessage { role, content }
HistoryMessage(role, content) == [role |-> role, content |-> content]

HistoryEntries == {HistoryMessage("user", "q"), HistoryMessage("assistant", "a")}

MaxHistory == 3

\* the histories a caller may supply, oldest entry first
Histories == SeqsUpTo(HistoryEntries, MaxHistory)

\* A text message: a well-formed JSON object with some of the required
\* fields of StreamRequest, and with no history member or with a string
\* where the list is expected, or a text that is no JSON document at all.
InboundTexts ==
  {[wf |-> FALSE, query |-> None, conversation_id |-> None, history |-> None]} \cup
  [wf : {TRUE},
   history : {None, Some(JsonText("h"))},
   query : {None} \cup {Some(q) : q \in Queries},
   conversation_id : {None} \cup {Some(k) : k \in ConversationIds}]

NoText == [wf |-> FALSE, query |-> None, conversation_id |-> None, history |-> None]

StreamRequest(query, conversation_id, history) ==
  [query |-> query, conversation_id |-> conversation_id, history |-> history]

NoRequest == [query |-> "", conversation_id |-> "", history |-> <<>>]

\* Vec<HistoryMessage> read from a JSON array: one HistoryMessage per element,
\* in the order of the array
DecodeHistory(items) ==
  [k \in 1..Len(items) |-> HistoryMessage(items[k].role, items[k].content)]

\* serde_json::from_str::<StreamRequest>(&text)
DecodeStreamRequest(text) ==
  IF ~text.wf
    THEN [ok |-> FALSE, req |-> NoRequest, err |-> <<"expected value at line 1 column 1">>]
  ELSE IF text.history # None /\ ~IsJsonArray(text.history[1])
    THEN [ok |-> FALSE, req |-> NoRequest,
          err |-> <<"invalid type: string ", Quote, text.history[1].string, Quote,
                    ", expected a sequence">>]
  ELSE IF text.query = None
    THEN [ok |-> FALSE, req |-> NoRequest, err |-> <<"missing field query">>]
  ELSE IF text.conversation_id = None
    THEN [ok |-> FALSE, req |-> NoRequest, err |-> <<"missing field conversation_id">>]
  ELSE [ok |-> TRUE,
        req |-> StreamRequest(text.query[1], text.conversation_id[1],
                              IF text.history = None
                                THEN <<>>
                                ELSE DecodeHistory(text.history[1].array)),
        err |-> <<>>]

\* the body json!({..}) builds for the POST: the history is the request's
\* Vec<HistoryMessage>, serialised element by element
StreamRequestBody(request) ==
  [query |-> request.query, conversation_id |-> request.conversation_id,
   history |-> [k \in 1..Len(request.history) |->
                  [role |-> request.history[k].role,
                   content |-> request.history[k].content]]]

NoPosted == [query |-> "", conversation_id |-> "", history |-> <<>>]

\* ------------------------------------------------------------------ upstream
IsSuccess(status) == status >= 200 /\ status <= 299

\* Display of http::StatusCode
StatusText(status) ==
  IF status = 200 THEN "200 OK"
  ELSE IF status = 500 THEN "500 Internal Server Error" ELSE "other status"

\* What the agent service does with one POST /chat: the transport fails, or it
\* answers a status with a body that is JSON or not, the JSON holding a string
\* field "response" or not.
UpstreamOutcomes ==
  {[kind |-> "transport", status |-> 0, json |-> FALSE, response |-> None]} \cup
  {[kind |-> "http", status |-> 500, json |-> FALSE, response |-> None]} \cup
  {[kind |-> "http", status |-> 200, json |-> FALSE, response |-> None]} \cup
  [kind : {"http"}, status : {200}, json : {TRUE},
   response : {None} \cup {Some(t) : t \in Texts}]

NoOutcome == [kind |-> "none", status |-> 0, json |-> FALSE, response |-> None]

DefaultText ==
  <<"I", " ", "u", "n", "d", "e", "r", "s", "t", "a", "n", "d", ".", " ",
    "H", "o", "w", " ", "c", "a", "n", " ", "I", " ", "h", "e", "l", "p", "?">>

\* mutant: a body without the response member is a failure
CallAgentStreamNeedsResponse(o) ==
  IF o.kind = "http" /\ IsSuccess(o.status) /\ o.json /\ o.response # None
    THEN [ok |-> TRUE, text |-> o.response[1], err |-> <<>>]
    ELSE [ok |-> FALSE, text |-> <<>>, err |-> <<"Failed to parse response: ", "missing field">>]

\* call_agent_stream: Result<String, String>
CallAgentStream(o) ==
  IF o.kind = "transport"
    THEN [ok |-> FALSE, text |-> <<>>,
          err |-> <<"Failed to reach agent service: ", "error sending request">>]
  ELSE IF ~IsSuccess(o.status)
    THEN [ok |-> FALSE, text |-> <<>>, err |-> <<"Agent service error: ", StatusText(o.status)>>]
  ELSE IF ~o.json
    THEN [ok |-> FALSE, text |-> <<>>,
          err |-> <<"Failed to parse response: ", "error decoding response body">>]
  ELSE [ok |-> TRUE,
        text |-> IF o.response # None THEN o.response[1] ELSE DefaultText,
        err |-> <<>>]

\* ------------------------------------------------------------------ session state
VARIABLES
  pc,       \* per connection: where handle_socket stands
  turn,     \* per connection: number of text messages read so far
  lastMsg,  \* per connection: kind of the last item socket.recv() returned
  inText,   \* per connection: the last text message read
  outcome,  \* per connection: what the agent service did with this turn's POST
  req,      \* per connection: the decoded StreamRequest of the current turn
  reply,    \* per connection: the text call_agent_stream returned
  idx,      \* per connection: the loop index i of the running for loop
  timer,    \* per connection: milliseconds of the sleep in progress
  errmsg,   \* per connection: the error e about to be formatted into a frame
  frames,   \* per connection: the sends of the current turn, with their results
  calls,    \* per connection: POSTs issued to the agent service in this turn
  failed,   \* per connection: the Err arm of call_agent_stream has been taken
  posted,   \* per connection: the JSON body of the POST of this turn
  upc,      \* per unary request: where handle_chat stands
  ureq,     \* per unary request: the ChatRequest axum handed to handle_chat
  ubody,    \* per unary request: the JSON body of the POST
  ucalls,   \* per unary request: POSTs issued to the agent service
  uout,     \* per unary request: what the agent service did with the POST
  ulog,     \* per unary request: the failure given to tracing::warn!
  uhttp,    \* per unary request: the HTTP response returned to the caller
  ppc,      \* proxy request: where the route handler stands
  proute,   \* proxy request: the route handler axum dispatched to
  pquery,   \* proxy request: the projectId query parameter
  pcalls,   \* proxy request: requests issued to the agent service
  pout,     \* proxy request: what the agent service did with the request
  phttp     \* proxy request: the HTTP response returned to the caller

svars ==
  <<pc, turn, lastMsg, inText, outcome, req, reply, idx, timer, errmsg, frames, calls, failed,
    posted>>

uvars == <<upc, ureq, ubody, ucalls, uout, ulog, uhttp>>

pvars == <<ppc, proute, pquery, pcalls, pout, phttp>>

vars == <<svars, failed, posted, uvars, pvars>>

SInit ==
  /\ pc = [c \in Conns |-> "open"]
  /\ turn = [c \in Conns |-> 0]
  /\ lastMsg = [c \in Conns |-> "none"]
  /\ inText = [c \in Conns |-> NoText]
  /\ outcome = [c \in Conns |-> NoOutcome]
  /\ req = [c \in Conns |-> NoRequest]
  /\ reply = [c \in Conns |-> <<>>]
  /\ idx = [c \in Conns |-> 0]
  /\ timer = [c \in Conns |-> 0]
  /\ errmsg = [c \in Conns |-> <<>>]
  /\ frames = [c \in Conns |-> <<>>]
  /\ calls = [c \in Conns |-> 0]
  /\ failed = [c \in Conns |-> FALSE]
  /\ posted = [c \in Conns |-> NoPosted]

\* mutant: a frame is written to every open socket
SentToAll(c, frame, ok) ==
  frames' = [d \in Conns |-> Append(frames[d], [frame |-> frame, ok |-> ok])]

\* socket.send(Message::Text(..)).await with result ok
Sent(c, frame, ok) ==
  frames' = [frames EXCEPT ![c] = Append(@, [frame |-> frame, ok |-> ok])]

\* mutant: the next message is read while the turn is still being streamed
CanRecvWhileStreaming(c) == pc[c] # "closed"

\* while let Some(msg) = socket.recv().await: the loop reads only at its head
CanRecv(c) == pc[c] = "open"

\* where the loop goes after the arm of each kind of message
\* mutant: the thinking steps are streamed before the call is made
OnDecodeOkStreamsFirst == "r_send"
OnDecodeOk == "call"
OnDecodeError == "decode_err"
\* mutant: break in place of continue
AfterDecodeErrorBreaks == "closed"
AfterDecodeError == "open"
\* mutant: the Close arm does not leave the loop
OnCloseContinues == "open"
OnClose == "closed"
OnRecvError == "closed"
\* mutant: a message of another kind ends the session
OnOtherCloses == "closed"
OnOther == "open"
\* mutant: a failed call is posted again
OnUpstreamResultRetries(r) == IF r.ok THEN "r_send" ELSE "call"
\* mutant: the Ok arm is taken whatever call_agent_stream returned
OnUpstreamResultIgnoresErr(r) == "r_send"
OnUpstreamResult(r) == IF r.ok THEN "r_send" ELSE "err_send"
\* mutant: the Err arm leaves the receive loop
AfterUpstreamErrorBreaks == "closed"
\* mutant: the Err arm falls through to the done signal
AfterUpstreamErrorFallsThrough == "done_send"
AfterUpstreamError == "open"
AfterDone == "open"

\* Ok(Message::Text(text)): parse the request
RecvTextOf(c, texts, turns) ==
  /\ CanRecv(c)
  /\ turn[c] < turns
  /\ \E text \in texts :
       LET d == DecodeStreamRequest(text) IN
         /\ inText' = [inText EXCEPT ![c] = text]
         /\ pc' = [pc EXCEPT ![c] = IF d.ok THEN OnDecodeOk ELSE OnDecodeError]
         /\ req' = [req EXCEPT ![c] = d.req]
         /\ errmsg' = [errmsg EXCEPT ![c] = d.err]
  /\ turn' = [turn EXCEPT ![c] = @ + 1]
  /\ lastMsg' = [lastMsg EXCEPT ![c] = "text"]
  /\ frames' = [frames EXCEPT ![c] = <<>>]
  /\ calls' = [calls EXCEPT ![c] = 0]
  /\ reply' = [reply EXCEPT ![c] = <<>>]
  /\ idx' = [idx EXCEPT ![c] = 0]
  /\ outcome' = [outcome EXCEPT ![c] = NoOutcome]
  /\ posted' = [posted EXCEPT ![c] = NoPosted]
  /\ UNCHANGED <<timer, failed, uvars, pvars>>

\* any text message a client may send, up to MaxTurns of them
RecvText(c) == RecvTextOf(c, InboundTexts, MaxTurns)

\* Err(e) of the parse: send the error frame, continue
SendDecodeError(c) ==
  /\ pc[c] = "decode_err"
  /\ \E ok \in BOOLEAN : Sent(c, ErrorFrame(errmsg[c]), ok)
  /\ pc' = [pc EXCEPT ![c] = AfterDecodeError]
  /\ UNCHANGED <<inText, outcome, turn, lastMsg, req, reply, idx, timer, errmsg, calls, failed, posted, uvars, pvars>>

\* Ok(Message::Close(_)) => break
RecvClose(c) ==
  /\ CanRecv(c)
  /\ pc' = [pc EXCEPT ![c] = OnClose]
  /\ lastMsg' = [lastMsg EXCEPT ![c] = "close"]
  /\ UNCHANGED <<inText, outcome, turn, req, reply, idx, timer, errmsg, frames, calls, failed, posted, uvars, pvars>>

\* Err(e) => break
RecvError(c) ==
  /\ CanRecv(c)
  /\ pc' = [pc EXCEPT ![c] = OnRecvError]
  /\ lastMsg' = [lastMsg EXCEPT ![c] = "error"]
  /\ UNCHANGED <<inText, outcome, turn, req, reply, idx, timer, errmsg, frames, calls, failed, posted, uvars, pvars>>

\* socket.recv() returns None: the while let ends
RecvEnd(c) ==
  /\ CanRecv(c)
  /\ pc' = [pc EXCEPT ![c] = "closed"]
  /\ lastMsg' = [lastMsg EXCEPT ![c] = "end"]
  /\ UNCHANGED <<inText, outcome, turn, req, reply, idx, timer, errmsg, frames, calls, failed, posted, uvars, pvars>>

\* _ => {} : Binary, Ping, Pong
RecvOther(c) ==
  /\ CanRecv(c)
  /\ pc' = [pc EXCEPT ![c] = OnOther]
  /\ lastMsg' = [lastMsg EXCEPT ![c] = "other"]
  /\ UNCHANGED <<inText, outcome, turn, req, reply, idx, timer, errmsg, frames, calls, failed, posted, uvars, pvars>>

\* call_agent_stream: client.post(..).json(..).send() issues the one POST
PostChat(c) ==
  /\ pc[c] = "call"
  /\ calls' = [calls EXCEPT ![c] = @ + 1]
  /\ posted' = [posted EXCEPT ![c] = StreamRequestBody(req[c])]
  /\ pc' = [pc EXCEPT ![c] = "await"]
  /\ UNCHANGED <<inText, outcome, turn, lastMsg, req, reply, idx, timer, errmsg, frames, failed, uvars, pvars>>

\* the agent service answers (or the transport fails): call_agent_stream returns
UpstreamAnswerOf(c, outcomes) ==
  /\ pc[c] = "await"
  /\ \E o \in outcomes :
       LET r == CallAgentStream(o) IN
         /\ outcome' = [outcome EXCEPT ![c] = o]
         /\ pc' = [pc EXCEPT ![c] = OnUpstreamResult(r)]
         /\ reply' = [reply EXCEPT ![c] = r.text]
         /\ errmsg' = [errmsg EXCEPT ![c] = r.err]
  /\ idx' = [idx EXCEPT ![c] = 0]
  /\ UNCHANGED <<turn, lastMsg, inText, req, timer, frames, calls, failed, posted, uvars, pvars>>

\* any outcome of the call
UpstreamAnswer(c) == UpstreamAnswerOf(c, UpstreamOutcomes)

\* ------------------------------------------------------------------ the pacer
Words(c) == SplitWhitespace(reply[c])

\* mutant: the word loop stops one word early
DeltaLoopHeadOffByOne(i, n) == IF i + 1 < n THEN "d_send" ELSE "done_send"

\* head of for (i, word) in words.iter().enumerate(); after it, the done signal
DeltaLoopHead(i, n) == IF i < n THEN "d_send" ELSE "done_send"

\* head of the loop over the three thinking steps; after it, the word loop
ReasoningLoopHead(i, n) == IF i < NumSteps THEN "r_send" ELSE DeltaLoopHead(0, n)

\* break of the reasoning loop: leaves that for loop, execution goes on below it
ReasoningSendFailed(n) == DeltaLoopHead(0, n)

\* mutant: a failed Delta send leaves the receive loop
DeltaSendFailedCloses == "closed"

\* break of the word loop: leaves that for loop, execution goes on below it
DeltaSendFailed == "done_send"

SendReasoning(c) ==
  /\ pc[c] = "r_send"
  /\ \E ok \in BOOLEAN :
       /\ Sent(c, ReasoningChunk(idx[c]), ok)
       /\ IF ok
            THEN /\ pc' = [pc EXCEPT ![c] = "r_sleep"]
                 /\ timer' = [timer EXCEPT ![c] = ReasoningDelayMs]
                 /\ idx' = idx
            ELSE /\ pc' = [pc EXCEPT ![c] = ReasoningSendFailed(Len(Words(c)))]
                 /\ timer' = timer
                 /\ idx' = [idx EXCEPT ![c] = 0]
  /\ UNCHANGED <<inText, outcome, turn, lastMsg, req, reply, errmsg, calls, failed, posted, uvars, pvars>>

\* tokio::time::sleep(200 ms) is over: next iteration
WakeReasoning(c) ==
  /\ pc[c] = "r_sleep"
  /\ timer' = [timer EXCEPT ![c] = 0]
  /\ pc' = [pc EXCEPT ![c] = ReasoningLoopHead(idx[c] + 1, Len(Words(c)))]
  /\ idx' = [idx EXCEPT ![c] = IF @ + 1 < NumSteps THEN @ + 1 ELSE 0]
  /\ UNCHANGED <<inText, outcome, turn, lastMsg, req, reply, errmsg, frames, calls, failed, posted, uvars, pvars>>

SendDelta(c) ==
  /\ pc[c] = "d_send"
  /\ \E ok \in BOOLEAN :
       /\ Sent(c, DeltaChunk(idx[c], Words(c)[idx[c] + 1]), ok)
       /\ IF ok
            THEN /\ pc' = [pc EXCEPT ![c] = "d_sleep"]
                 /\ timer' = [timer EXCEPT ![c] = DeltaDelayMs(idx[c])]
            ELSE /\ pc' = [pc EXCEPT ![c] = DeltaSendFailed]
                 /\ timer' = timer
  /\ UNCHANGED <<inText, outcome, turn, lastMsg, req, reply, idx, errmsg, calls, failed, posted, uvars, pvars>>

\* tokio::time::sleep(30 + i % 50 ms) is over: next iteration
WakeDelta(c) ==
  /\ pc[c] = "d_sleep"
  /\ timer' = [timer EXCEPT ![c] = 0]
  /\ pc' = [pc EXCEPT ![c] = DeltaLoopHead(idx[c] + 1, Len(Words(c)))]
  /\ idx' = [idx EXCEPT ![c] = @ + 1]
  /\ UNCHANGED <<inText, outcome, turn, lastMsg, req, reply, errmsg, frames, calls, failed, posted, uvars, pvars>>

\* the done signal; its result is dropped (let _ =)
SendDone(c) ==
  /\ pc[c] = "done_send"
  /\ \E ok \in BOOLEAN : Sent(c, DoneChunk, ok)
  /\ pc' = [pc EXCEPT ![c] = AfterDone]
  /\ UNCHANGED <<inText, outcome, turn, lastMsg, req, reply, idx, timer, errmsg, calls, failed, posted, uvars, pvars>>

\* Err(e) of call_agent_stream: one error frame; its result is dropped
SendUpstreamError(c) ==
  /\ pc[c] = "err_send"
  /\ \E ok \in BOOLEAN : Sent(c, ErrorFrame(errmsg[c]), ok)
  /\ pc' = [pc EXCEPT ![c] = AfterUpstreamError]
  /\ failed' = [failed EXCEPT ![c] = TRUE]
  /\ UNCHANGED <<inText, outcome, turn, lastMsg, req, reply, idx, timer, errmsg, calls, posted, uvars, pvars>>

\* the steps the task of connection c takes by itself
\* mutant: a pause of one connection holds the worker, as a blocking sleep or
\* a blocking call would
RunnableWhenNoneWaits(c) ==
  \A d \in Conns \ {c} : pc[d] \notin {"await", "r_sleep", "d_sleep"}

\* every pause of handle_socket is an .await, which yields the worker: the
\* task of connection c runs whatever the other connections wait for
Runnable(c) == TRUE

\* what the task of connection c does when the runtime polls it
SessionStep(c) ==
  \/ Runnable(c) /\ SendDecodeError(c)
  \/ Runnable(c) /\ PostChat(c)
  \/ Runnable(c) /\ SendReasoning(c)
  \/ Runnable(c) /\ WakeReasoning(c)
  \/ Runnable(c) /\ SendDelta(c)
  \/ Runnable(c) /\ WakeDelta(c)
  \/ Runnable(c) /\ SendDone(c)
  \/ Runnable(c) /\ SendUpstreamError(c)

\* the steps that wait for the client or for the agent service
SessionInput(c) ==
  \/ RecvText(c)
  \/ RecvClose(c)
  \/ RecvError(c)
  \/ RecvEnd(c)
  \/ RecvOther(c)
  \/ UpstreamAnswer(c)

\* ------------------------------------------------------------------ unary chat
NumUnary == 2

Unary == 1..NumUnary

\* the decoded requests; the history member is absent from these
ChatRequests == [query : Queries, conversation_id : ConversationIds, history : {<<>>}]

NoChatRequest == [query |-> "", conversation_id |-> "", history |-> <<>>]

\* mutant: the history is collected newest first
ClientChatRequestNewestFirst(request) ==
  [query |-> request.query, conversation_id |-> request.conversation_id,
   history |-> [k \in 1..Len(request.history) |->
                  HistoryMessage(request.history[Len(request.history) + 1 - k].role,
                                 request.history[Len(request.history) + 1 - k].content)]]

\* the ClientChatRequest handle_chat builds from the request:
\* request.history.iter().map(|h| HistoryMessage { role, content }).collect()
ClientChatRequest(request) ==
  [query |-> request.query, conversation_id |-> request.conversation_id,
   history |-> [k \in 1..Len(request.history) |->
                  HistoryMessage(request.history[k].role, request.history[k].content)]]

\* .json(&request) in AgentServiceClient::chat: the derived Serialize writes
\* the members of the request, the history as an array in the order of the Vec
SerializeChatRequest(request) ==
  [query |-> request.query, conversation_id |-> request.conversation_id,
   history |-> [k \in 1..Len(request.history) |->
                  [role |-> request.history[k].role,
                   content |-> request.history[k].content]]]

Step1 == [step |-> 1, step_type |-> "analysis", content |-> "looked", duration_ms |-> Some(5)]
Step2 == [step |-> 2, step_type |-> "synthesis", content |-> "wrote", duration_ms |-> None]
Artifact1 ==
  [id |-> "a1", artifact_type |-> "code", title |-> "t1", content |-> "x", language |-> Some("rust")]
Artifact2 ==
  [id |-> "a2", artifact_type |-> "doc", title |-> "t2", content |-> "y", language |-> None]

\* the JSON bodies the agent service may answer: each field present or not
ChatBodies ==
  [response : {None, Some("r1")},
   reasoning : {None, Some(<<>>), Some(<<Step1, Step2>>)},
   artifacts : {None, Some(<<>>), Some(<<Artifact1, Artifact2>>)},
   citations : {None, Some(<<>>), Some(<<"cite1", "cite2">>)}]

NoBody == [response |-> None, reasoning |-> None, artifacts |-> None, citations |-> None]

ChatOutcomes ==
  {[kind |-> "transport", status |-> 0, json |-> FALSE, body |-> NoBody]} \cup
  {[kind |-> "http", status |-> 500, json |-> FALSE, body |-> NoBody]} \cup
  {[kind |-> "http", status |-> 200, json |-> FALSE, body |-> NoBody]} \cup
  [kind : {"http"}, status : {200}, json : {TRUE}, body : ChatBodies]

NoChatOutcome == [kind |-> "none", status |-> 0, json |-> FALSE, body |-> NoBody]

EmptyReply == [response |-> "", reasoning |-> <<>>, artifacts |-> <<>>, citations |-> <<>>]

NoError == [kind |-> "none", msg |-> ""]

ClientError(kind, msg) == [kind |-> kind, msg |-> msg]

\* Duration::from_secs(30) of AgentServiceClient::new
TimeoutSecs == 30

\* response.json::<ChatResponse>(): response and reasoning are required,
\* artifacts and citations are #[serde(default)]
DecodeChatResponse(body) ==
  IF body.response = None \/ body.reasoning = None
    THEN [ok |-> FALSE, value |-> EmptyReply]
    ELSE [ok |-> TRUE,
          value |-> [response |-> body.response[1],
                     reasoning |-> body.reasoning[1],
                     artifacts |-> IF body.artifacts = None THEN <<>> ELSE body.artifacts[1],
                     citations |-> IF body.citations = None THEN <<>> ELSE body.citations[1]]]

\* AgentServiceClient::chat: Result<ChatResponse, ClientError>
ClientChat(o) ==
  IF o.kind = "transport"
    THEN [ok |-> FALSE, value |-> EmptyReply,
          err |-> ClientError("ConnectionError", "error sending request")]
  ELSE IF o.kind = "timeout"
    THEN [ok |-> FALSE, value |-> EmptyReply,
          err |-> ClientError("ConnectionError", "operation timed out")]
  ELSE IF o.kind = "timeout_body"
    THEN [ok |-> FALSE, value |-> EmptyReply,
          err |-> ClientError("ParseError", "operation timed out")]
  ELSE IF IsSuccess(o.status)
    THEN IF o.json /\ DecodeChatResponse(o.body).ok
           THEN [ok |-> TRUE, value |-> DecodeChatResponse(o.body).value, err |-> NoError]
           ELSE [ok |-> FALSE, value |-> EmptyReply,
                 err |-> ClientError("ParseError", "error decoding response body")]
  ELSE [ok |-> FALSE, value |-> EmptyReply,
        err |-> ClientError("ServiceError", StatusText(o.status))]

\* the request ran into the client's timeout before the service answered
TimedOut == [kind |-> "timeout", status |-> 0, json |-> FALSE, body |-> NoBody]

\* the deadline passed after a 2xx status line, while the body was read
TimedOutInBody == [kind |-> "timeout_body", status |-> 200, json |-> FALSE, body |-> NoBody]

\* Json<ChatResponse>::into_response
StatusOk == 200

NoHttp == [status |-> 0, body |-> EmptyReply]

\* mutant: the duration of a step is not copied
TranslateStepNoDuration(r) ==
  [step |-> r.step, step_type |-> r.step_type, content |-> r.content, duration_ms |-> None]

\* the closure that maps a ReasoningStep of the client to one of the route
TranslateStep(r) ==
  [step |-> r.step, step_type |-> r.step_type, content |-> r.content,
   duration_ms |-> r.duration_ms]

\* the closure that maps an Artifact of the client to one of the route
TranslateArtifact(a) ==
  [id |-> a.id, artifact_type |-> a.artifact_type, title |-> a.title,
   content |-> a.content, language |-> a.language]

\* mutant: the list is passed on, empty or not
TranslateArtifactsAlways(artifacts) ==
  Some([k \in 1..Len(artifacts) |-> TranslateArtifact(artifacts[k])])

\* None for an empty list, the mapped artifacts otherwise
TranslateArtifacts(artifacts) ==
  IF artifacts = <<>> THEN None
  ELSE Some([k \in 1..Len(artifacts) |-> TranslateArtifact(artifacts[k])])

\* None for an empty list, the citations otherwise
TranslateCitations(citations) ==
  IF citations = <<>> THEN None ELSE Some(citations)

\* Ok(response) arm of handle_chat
HandleChatOk(response) ==
  [status |-> StatusOk,
   body |-> [response |-> response.response,
             reasoning |-> [k \in 1..Len(response.reasoning) |->
                              TranslateStep(response.reasoning[k])],
             artifacts |-> TranslateArtifacts(response.artifacts),
             citations |-> TranslateCitations(response.citations)]]

\* mutant: a fallback without the query and without a reasoning step
HandleChatErrBare(request, e) ==
  [status |-> StatusOk,
   body |-> [response |-> <<"Processing query: ">>,
             reasoning |-> <<>>, artifacts |-> None, citations |-> None]]

\* mutant: the fallback text carries the failure detail
HandleChatErrLeaksDetail(request, e) ==
  [status |-> StatusOk,
   body |-> [response |-> <<"Processing query: ", request.query, e.kind, e.msg>>,
             reasoning |-> <<[step |-> 1, step_type |-> "analysis",
                              content |-> "Analyzing your request...",
                              duration_ms |-> Some(100)]>>,
             artifacts |-> None,
             citations |-> None]]

\* mutant: the fallback text counts the requests answered so far, a state
\* shared by the requests
HandleChatErrCounting(request, e) ==
  [status |-> StatusOk,
   body |-> [response |-> <<"Processing query: ", request.query,
                            ToString(Cardinality({v \in Unary : upc[v] = "done"}))>>,
             reasoning |-> <<[step |-> 1, step_type |-> "analysis",
                              content |-> "Analyzing your request...",
                              duration_ms |-> Some(100)]>>,
             artifacts |-> None,
             citations |-> None]]

\* mutant: the failure is surfaced as 503
HandleChatErrUnavailable(request, e) ==
  [status |-> 503,
   body |-> [response |-> <<"Processing query: ", request.query>>,
             reasoning |-> <<>>, artifacts |-> None, citations |-> None]]

\* Err(e) arm of handle_chat: the fallback response
HandleChatErr(request, e) ==
  [status |-> StatusOk,
   body |-> [response |-> <<"Processing query: ", request.query>>,
             reasoning |-> <<[step |-> 1, step_type |-> "analysis",
                              content |-> "Analyzing your request...",
                              duration_ms |-> Some(100)]>>,
             artifacts |-> None,
             citations |-> None]]

UInit ==
  /\ upc = [u \in Unary |-> "idle"]
  /\ ureq = [u \in Unary |-> NoChatRequest]
  /\ ubody = [u \in Unary |-> NoPosted]
  /\ ucalls = [u \in Unary |-> 0]
  /\ uout = [u \in Unary |-> NoChatOutcome]
  /\ ulog = [u \in Unary |-> NoError]
  /\ uhttp = [u \in Unary |-> NoHttp]

\* handle_chat is entered with a decoded ChatRequest and posts it
ChatArriveOf(u, requests) ==
  /\ upc[u] = "idle"
  /\ \E r \in requests :
       /\ ureq' = [ureq EXCEPT ![u] = r]
       /\ ubody' = [ubody EXCEPT ![u] = SerializeChatRequest(ClientChatRequest(r))]
  /\ ucalls' = [ucalls EXCEPT ![u] = @ + 1]
  /\ upc' = [upc EXCEPT ![u] = "await"]
  /\ UNCHANGED <<uout, ulog, uhttp, svars, pvars>>

\* any request
ChatArrive(u) == ChatArriveOf(u, ChatRequests)

\* client.chat(..).await returns with outcome o
ChatReturn(u, o) ==
  LET r == ClientChat(o) IN
    /\ uhttp' = [uhttp EXCEPT ![u] =
                   IF r.ok THEN HandleChatOk(r.value) ELSE HandleChatErr(ureq[u], r.err)]
    /\ uout' = [uout EXCEPT ![u] = o]
    /\ ulog' = [ulog EXCEPT ![u] = r.err]
    /\ upc' = [upc EXCEPT ![u] = "done"]
    /\ UNCHANGED <<ureq, ubody, ucalls, svars, pvars>>

\* the agent service answers, or the transport fails
ChatAnswerOf(u, outcomes) ==
  /\ upc[u] = "await"
  /\ \E o \in outcomes : ChatReturn(u, o)

\* any outcome of the call
ChatAnswer(u) == ChatAnswerOf(u, ChatOutcomes)

\* .timeout(self.timeout): the deadline passes first
ChatTimeout(u) ==
  /\ upc[u] = "await"
  /\ \E o \in {TimedOut, TimedOutInBody} : ChatReturn(u, o)

\* ------------------------------------------------------------------ proxy routes
\* the handlers of tools.rs that decode the body as serde_json::Value
ValueRoutes ==
  {"upsert_app_instance", "get_app_instance", "upsert_user_app", "list_user_apps",
   "upsert_project_app", "list_project_apps", "list_projects", "brain_search"}

\* every handler that forwards its request to the agent service
ProxyRoutes ==
  {"handle_action", "list_tools", "execute_tool", "get_project", "list_endpoints"}
    \cup ValueRoutes

ProjectQueries == {None, Some("p1")}

\* what a body of the agent service is: no JSON, or a JSON value shaped as a
\* list of tools, a ToolResult, an ActionResponse, or anything else
BodyShapes == {"not_json", "tools", "tool_result", "action_response", "other"}

ProxyOutcomes ==
  {[kind |-> "transport", status |-> 0, shape |-> "not_json", success |-> FALSE]} \cup
  [kind : {"http"}, status : {200, 404, 500}, shape : BodyShapes, success : BOOLEAN]

NoProxyOutcome == [kind |-> "none", status |-> 0, shape |-> "not_json", success |-> FALSE]

\* the deadline of execute_action passed before the agent service answered
ActionTimedOut == [kind |-> "timeout", status |-> 0, shape |-> "not_json", success |-> FALSE]

\* resp.json::<T>() of the route: T is Vec<ToolDefinition>, ToolResult (an
\* ActionResponse has its required field too), ActionResponse, or Value
Decodes(route, shape) ==
  CASE route = "list_tools" -> shape = "tools"
    [] route = "execute_tool" -> shape \in {"tool_result", "action_response"}
    [] route = "handle_action" -> shape = "action_response"
    [] OTHER -> shape # "not_json"

StatusBadRequest == 400
StatusNotFound == 404
StatusInternalServerError == 500
StatusServiceUnavailable == 503

\* (StatusCode, &str)::into_response
TextResponse(status, text) == [status |-> status, text |-> text, json |-> None]

\* Json(value).into_response
JsonResponse(value) == [status |-> StatusOk, text |-> "", json |-> Some(value)]

NoProxyResponse == [status |-> 0, text |-> "", json |-> None]

\* mutant: a status that is no success is answered as a failure
ProxyResultChecksStatus(route, o) ==
  IF o.kind = "transport"
    THEN TextResponse(StatusServiceUnavailable, "Agent service unavailable")
  ELSE IF ~IsSuccess(o.status)
    THEN TextResponse(StatusInternalServerError, "Agent service error")
  ELSE IF Decodes(route, o.shape)
    THEN JsonResponse([shape |-> o.shape, success |-> o.success])
  ELSE TextResponse(StatusInternalServerError, "Failed to parse response")

\* the match on send() and json() that the handlers of tools.rs share
ProxyResult(route, o) ==
  IF o.kind = "transport"
    THEN TextResponse(StatusServiceUnavailable, "Agent service unavailable")
  ELSE IF Decodes(route, o.shape)
    THEN JsonResponse([shape |-> o.shape, success |-> o.success])
  ELSE TextResponse(StatusInternalServerError, "Failed to parse response")

\* get_project: a 404 of the agent service is answered before the body is read
GetProject(o) ==
  IF o.kind = "http" /\ o.status = StatusNotFound
    THEN TextResponse(StatusNotFound, "Project not found")
    ELSE ProxyResult("get_project", o)

\* AgentServiceClient::execute_action: Result<ActionResponse, ClientError>
ClientExecuteAction(o) ==
  IF o.kind \in {"transport", "timeout"}
    THEN [ok |-> FALSE, success |-> FALSE, err |-> "ConnectionError"]
  ELSE IF IsSuccess(o.status)
    THEN IF Decodes("handle_action", o.shape)
           THEN [ok |-> TRUE, success |-> o.success, err |-> "none"]
           ELSE [ok |-> FALSE, success |-> FALSE, err |-> "ParseError"]
  ELSE [ok |-> FALSE, success |-> FALSE, err |-> "ServiceError"]

\* handle_action: Json<ActionResult> from both arms of the match
HandleAction(o) ==
  LET r == ClientExecuteAction(o) IN
    IF r.ok
      THEN JsonResponse([shape |-> "action_result", success |-> r.success, message |-> "upstream"])
      ELSE JsonResponse([shape |-> "action_result", success |-> TRUE,
                         message |-> "Action executed (fallback mode)"])

\* the response of the route to outcome o of its upstream request
RouteResponse(route, o) ==
  CASE route = "handle_action" -> HandleAction(o)
    [] route = "get_project" -> GetProject(o)
    [] OTHER -> ProxyResult(route, o)

PInit ==
  /\ ppc = "idle"
  /\ proute = "none"
  /\ pquery = None
  /\ pcalls = 0
  /\ pout = NoProxyOutcome
  /\ phttp = NoProxyResponse

\* list_endpoints without a projectId: 400, no upstream request
EndpointsBadRequest ==
  /\ ppc = "idle"
  /\ proute' = "list_endpoints"
  /\ pquery' = None
  /\ phttp' = TextResponse(StatusBadRequest, "projectId is required")
  /\ ppc' = "done"
  /\ UNCHANGED <<pcalls, pout, svars, uvars>>

\* a handler is entered and sends its request to the agent service
ProxyArrive ==
  /\ ppc = "idle"
  /\ \E route \in ProxyRoutes, q \in ProjectQueries :
       /\ route = "list_endpoints" => q # None
       /\ proute' = route
       /\ pquery' = q
  /\ pcalls' = pcalls + 1
  /\ ppc' = "await"
  /\ UNCHANGED <<pout, phttp, svars, uvars>>

\* send().await and json().await return
ProxyReturn(o) ==
  /\ pout' = o
  /\ phttp' = RouteResponse(proute, o)
  /\ ppc' = "done"
  /\ UNCHANGED <<proute, pquery, pcalls, svars, uvars>>

ProxyAnswer ==
  /\ ppc = "await"
  /\ \E o \in ProxyOutcomes : ProxyReturn(o)

\* .timeout(self.timeout) of execute_action; the client of tools.rs has none
ActionTimeout ==
  /\ ppc = "await"
  /\ proute = "handle_action"
  /\ ProxyReturn(ActionTimedOut)

Init == SInit /\ UInit /\ PInit

\* one connection, from the upgrade to the end of handle_socket
Next == SessionStep(1) \/ SessionInput(1)

Spec == Init /\ [][Next]_vars

\* the runtime keeps polling the task: a send completes, a sleep ends.  Nothing
\* makes the client send or the agent service answer.
FairSpec == Spec /\ WF_vars(SessionStep(1))

\* the same, with an agent service that answers every POST sooner or later
AnsweringSpec == FairSpec /\ WF_vars(UpstreamAnswer(1))

\* the unary requests, served concurrently
UNext == \E u \in Unary : ChatArrive(u) \/ ChatAnswer(u) \/ ChatTimeout(u)

UnarySpec == Init /\ [][UNext]_vars

\* the deadline of a pending unary call passes
UnaryFairSpec == UnarySpec /\ \A u \in Unary : WF_vars(ChatTimeout(u))

\* ------------------------------------------------------------------ the gateway
\* every connection and every unary request, served concurrently, each over a
\* small set of inputs
GatewayTurns == 1

GatewayTexts ==
  {[wf |-> FALSE, query |-> None, conversation_id |-> None, history |-> None],
   [wf |-> TRUE, query |-> Some("q1"), conversation_id |-> Some("c1"), history |-> None]}

GatewayOutcomes ==
  {[kind |-> "transport", status |-> 0, json |-> FALSE, response |-> None],
   [kind |-> "http", status |-> 200, json |-> TRUE, response |-> Some(<<"a">>)]}

GatewayRequests == {[query |-> "q1", conversation_id |-> "c1", history |-> <<>>]}

GatewayChatOutcomes ==
  {[kind |-> "transport", status |-> 0, json |-> FALSE, body |-> NoBody],
   [kind |-> "http", status |-> 200, json |-> TRUE,
    body |-> [response |-> Some("r1"), reasoning |-> Some(<<Step1, Step2>>),
              artifacts |-> None, citations |-> None]]}

GatewaySessionInput(c) ==
  \/ RecvTextOf(c, GatewayTexts, GatewayTurns)
  \/ RecvClose(c)
  \/ RecvError(c)
  \/ UpstreamAnswerOf(c, GatewayOutcomes)

GatewayUnary(u) ==
  \/ ChatArriveOf(u, GatewayRequests)
  \/ ChatAnswerOf(u, GatewayChatOutcomes)
  \/ ChatTimeout(u)

GatewayNext ==
  \/ \E c \in Conns : SessionStep(c) \/ GatewaySessionInput(c)
  \/ \E u \in Unary : GatewayUnary(u)

GatewaySpec == Init /\ [][GatewayNext]_vars

\* the runtime keeps polling every task, and the deadline of a pending unary
\* call passes.  Nothing makes a client send or the agent service answer.
GatewayFairSpec ==
  /\ GatewaySpec
  /\ \A c \in Conns : WF_vars(SessionStep(c))
  /\ \A u \in Unary : WF_vars(ChatTimeout(u))

\* one request to a proxy route
ProxyNext == EndpointsBadRequest \/ ProxyArrive \/ ProxyAnswer \/ ActionTimeout

ProxySpec == Init /\ [][ProxyNext]_vars

\* ------------------------------------------------------------------ histories
\* one connection and one unary request, each with a history of the caller
HistoryTexts ==
  {[wf |-> FALSE, query |-> None, conversation_id |-> None, history |-> None]} \cup
  [wf : {TRUE}, query : {Some("q1")}, conversation_id : {Some("c1")},
   history : {None} \cup {Some(JsonArray(h)) : h \in Histories}]

HistoryRequests == [query : {"q1"}, conversation_id : {"c1"}, history : Histories]

HistoryNext ==
  \/ SessionStep(1)
  \/ RecvTextOf(1, HistoryTexts, GatewayTurns)
  \/ UpstreamAnswerOf(1, GatewayOutcomes)
  \/ ChatArriveOf(1, HistoryRequests)
  \/ ChatAnswerOf(1, GatewayChatOutcomes)

HistorySpec == Init /\ [][HistoryNext]_vars

\* ------------------------------------------------------------------ long replies
\* one connection, one turn, a reply of more than 50 words
MaxWords == 52

\* the text of n words "a", one space between them
WordsText(n) == [i \in 1..(2 * n - 1) |-> IF i % 2 = 1 THEN "a" ELSE " "]

LongOutcomes ==
  {[kind |-> "transport", status |-> 0, json |-> FALSE, response |-> None]} \cup
  {[kind |-> "http", status |-> 200, json |-> TRUE, response |-> Some(WordsText(n))] :
     n \in {1, MaxWords}}

LongReplyNext ==
  \/ SessionStep(1)
  \/ RecvTextOf(1, GatewayTexts, GatewayTurns)
  \/ UpstreamAnswerOf(1, LongOutcomes)

LongReplySpec == Init /\ [][LongReplyNext]_vars

\* ================================================================== claims
FrameTypes(c) == [k \in 1..Len(frames[c]) |-> frames[c][k].frame.type]

AllSendsOk(c) == \A k \in 1..Len(frames[c]) : frames[c][k].ok

\* the turn of the last text message has run to its end
TurnComplete(c) == turn[c] > 0 /\ pc[c] \in {"open", "closed"}

\* the agent service answered 2xx with a JSON body
UpstreamSucceeded(c) ==
  outcome[c].kind = "http" /\ outcome[c].status \in 200..299 /\ outcome[c].json

\* transport failure, non-2xx status, or undecodable body
UpstreamFailed(c) ==
  \/ outcome[c].kind = "transport"
  \/ outcome[c].kind = "http" /\ (outcome[c].status \notin 200..299 \/ ~outcome[c].json)

Repeat(x, n) == [k \in 1..n |-> x]

IsPrefix(s, t) == Len(s) <= Len(t) /\ \A k \in 1..Len(s) : s[k] = t[k]

\* the positions at which a word of t starts
WordStarts(t) ==
  {k \in 1..Len(t) : t[k] \notin Whitespace /\ (k = 1 \/ t[k - 1] \in Whitespace)}

WordCount(t) == Cardinality(WordStarts(t))

ExpectedTypes(t) ==
  Repeat("reasoning", 3) \o Repeat("delta", WordCount(t)) \o <<"done">>

\* C1 as claimed: every completed turn whose upstream call succeeded sent
\* 3 Reasoning frames, then one Delta frame per word of the reply, then one
\* Done frame, and nothing else.
C1_AsClaimed ==
  \A c \in Conns :
    TurnComplete(c) /\ UpstreamSucceeded(c) => FrameTypes(c) = ExpectedTypes(reply[c])

\* C1 amended: in a turn whose upstream call succeeded and in which no send
\* has failed, the frames sent so far are a prefix of 3 Reasoning, N Delta
\* (N the word count of the reply), 1 Done, and the completed turn sent
\* exactly that sequence.
C1_PacerOrder ==
  \A c \in Conns :
    UpstreamSucceeded(c) /\ AllSendsOk(c) =>
      /\ IsPrefix(FrameTypes(c), ExpectedTypes(reply[c]))
      /\ TurnComplete(c) => FrameTypes(c) = ExpectedTypes(reply[c])

C1_Witness ==
  /\ TurnComplete(1) /\ UpstreamSucceeded(1) /\ AllSendsOk(1)
  /\ WordCount(reply[1]) = 2
  /\ FrameTypes(1) = <<"reasoning", "reasoning", "reasoning", "delta", "delta", "done">>

\* C2: a turn whose upstream call failed sends error frames only, at most
\* one, and exactly one once the turn is complete.
C2_ErrorOnly ==
  \A c \in Conns :
    UpstreamFailed(c) =>
      /\ Len(frames[c]) <= 1
      /\ \A k \in 1..Len(frames[c]) :
           frames[c][k].frame.type = "error" /\ frames[c][k].frame.message # None
      /\ pc[c] \in {"err_send", "open", "closed"}
      /\ TurnComplete(c) => Len(frames[c]) = 1

C2_Witness ==
  /\ TurnComplete(1)
  /\ outcome[1].kind = "http" /\ outcome[1].status = 500
  /\ FrameTypes(1) = <<"error">>

TerminalIdx(c) ==
  {k \in 1..Len(frames[c]) : frames[c][k].frame.type \in {"done", "error"}}

\* C3: a turn never has two terminal frames, a terminal frame is the last
\* frame of its turn, and a completed turn has exactly one.
C3_OneTerminal ==
  \A c \in Conns :
    /\ Cardinality(TerminalIdx(c)) <= 1
    /\ \A k \in TerminalIdx(c) : k = Len(frames[c])
    /\ TurnComplete(c) => Cardinality(TerminalIdx(c)) = 1

C3_Witness ==
  /\ TurnComplete(1) /\ turn[1] = 2
  /\ \E k \in 1..Len(frames[1]) : ~frames[1][k].ok
  /\ frames[1][Len(frames[1])].frame.type = "done"

\* C4: a Reasoning or Delta send that failed is the last send of its turn.
C4_AbortOnSendFailure ==
  \A c \in Conns :
    \A k \in 1..Len(frames[c]) :
      (frames[c][k].frame.type \in {"reasoning", "delta"} /\ ~frames[c][k].ok)
        => k = Len(frames[c])

IsDelta(e) == e.frame.type = "delta"

\* the delta contents of the turn, in emission order
DeltaContents(c) ==
  LET ds == SelectSeq(frames[c], IsDelta) IN [k \in 1..Len(ds) |-> ds[k].frame.delta[1]]

RECURSIVE Flatten(_)
Flatten(ss) == IF Len(ss) = 0 THEN <<>> ELSE Head(ss) \o Flatten(Tail(ss))

RECURSIVE DropLeadingWs(_)
DropLeadingWs(t) ==
  IF Len(t) > 0 /\ Head(t) \in Whitespace THEN DropLeadingWs(Tail(t)) ELSE t

RECURSIVE DropTrailingWs(_)
DropTrailingWs(t) ==
  IF Len(t) > 0 /\ t[Len(t)] \in Whitespace
    THEN DropTrailingWs(SubSeq(t, 1, Len(t) - 1)) ELSE t

\* t with every run of whitespace replaced by one space
RECURSIVE Collapse(_)
Collapse(t) ==
  IF Len(t) = 0 THEN <<>>
  ELSE IF Head(t) \in Whitespace THEN <<" ">> \o Collapse(DropLeadingWs(t))
  ELSE <<Head(t)>> \o Collapse(Tail(t))

\* t without its leading and trailing whitespace, inner runs collapsed
TrimCollapse(t) == Collapse(DropTrailingWs(DropLeadingWs(t)))

\* the first delta starts with no space, every later one with exactly one
DeltaSpacing(ds) ==
  \A k \in 1..Len(ds) :
    IF k = 1 THEN Len(ds[k]) >= 1 /\ ds[k][1] \notin Whitespace
    ELSE Len(ds[k]) >= 2 /\ ds[k][1] = " " /\ ds[k][2] \notin Whitespace

\* C5 as claimed (on the turns in which every send succeeded): the deltas of
\* a non-empty reply t concatenate to t with every run of whitespace, leading
\* and trailing runs included, collapsed to one space.
C5_AsClaimed ==
  \A c \in Conns :
    (TurnComplete(c) /\ UpstreamSucceeded(c) /\ AllSendsOk(c) /\ reply[c] # <<>>) =>
      /\ Flatten(DeltaContents(c)) = Collapse(reply[c])
      /\ DeltaSpacing(DeltaContents(c))

\* C5 amended: in a completed turn in which every send succeeded, the deltas
\* of a non-empty reply t concatenate to t without its leading and trailing
\* whitespace and with every inner run of whitespace collapsed to one space;
\* the first delta starts with no space, every later one with exactly one.
C5_DeltasRebuildText ==
  \A c \in Conns :
    (TurnComplete(c) /\ UpstreamSucceeded(c) /\ AllSendsOk(c) /\ reply[c] # <<>>) =>
      /\ Flatten(DeltaContents(c)) = TrimCollapse(reply[c])
      /\ DeltaSpacing(DeltaContents(c))

C5_Witness ==
  /\ TurnComplete(1) /\ UpstreamSucceeded(1) /\ AllSendsOk(1)
  /\ reply[1] = <<" ", "a", "\t", "a">>
  /\ Flatten(DeltaContents(1)) = <<"a", " ", "a">>

\* a text that does not decode: no JSON, or a required field is missing
Undecodable(text) ==
  \/ ~text.wf \/ text.query = None \/ text.conversation_id = None
  \/ text.history # None /\ ~IsJsonArray(text.history[1])

\* C6: the turn of an undecodable text message makes no upstream call, sends
\* one error frame and nothing else, and leaves the session open (in the
\* read loop, not closed) until another message is read.
C6_DecodeError ==
  \A c \in Conns :
    (turn[c] > 0 /\ Undecodable(inText[c])) =>
      /\ calls[c] = 0 /\ outcome[c] = NoOutcome
      /\ pc[c] \in {"decode_err", "open", "closed"}
      /\ lastMsg[c] = "text" => pc[c] \in {"decode_err", "open"}
      /\ pc[c] = "decode_err" => frames[c] = <<>>
      /\ pc[c] # "decode_err" =>
           /\ FrameTypes(c) = <<"error">>
           /\ frames[c][1].frame.message = Some(errmsg[c])

\* after the decode error the session read a further message and is open
C6_Witness ==
  /\ turn[1] = 1 /\ Undecodable(inText[1])
  /\ lastMsg[1] = "other" /\ pc[1] = "open"
  /\ FrameTypes(1) = <<"error">>

LastFrameTerminal(c) ==
  Len(frames[c]) > 0 /\ frames[c][Len(frames[c])].frame.type \in {"done", "error"}

\* C7: a message is read only while the session is open and the turn before
\* it has reached its terminal frame; a new turn starts with no frame, and
\* within a turn frames are only appended: the frames of one request are
\* all sent before the next request is read.
C7_OneInFlight ==
  [][\A c \in Conns :
       /\ (turn'[c] # turn[c] \/ lastMsg'[c] # lastMsg[c] \/ inText'[c] # inText[c])
            => (pc[c] = "open" /\ (turn[c] = 0 \/ LastFrameTerminal(c)))
       /\ turn'[c] # turn[c] => (turn'[c] = turn[c] + 1 /\ frames'[c] = <<>>)
       /\ turn'[c] = turn[c] => IsPrefix(frames[c], frames'[c])]_vars

\* the second request is being streamed
C7_Witness ==
  /\ turn[1] = 2 /\ pc[1] = "d_sleep"
  /\ FrameTypes(1) = <<"reasoning", "reasoning", "reasoning", "delta">>

\* C8: after a Close message or a receive error the session is closed; it
\* closes from the open state only, sending no frame and calling no upstream
\* in that step; a closed session never changes again.
C8_CloseEndsSession ==
  /\ [](\A c \in Conns : lastMsg[c] \in {"close", "error"} => pc[c] = "closed")
  /\ [][\A c \in Conns :
          /\ pc[c] = "closed" =>
               /\ pc'[c] = "closed" /\ turn'[c] = turn[c] /\ lastMsg'[c] = lastMsg[c]
               /\ frames'[c] = frames[c] /\ calls'[c] = calls[c]
          /\ (pc[c] # "closed" /\ pc'[c] = "closed") =>
               /\ pc[c] = "open"
               /\ frames'[c] = frames[c] /\ calls'[c] = calls[c]
               /\ outcome'[c] = outcome[c]]_vars

C8_Witness ==
  /\ pc[1] = "closed" /\ lastMsg[1] = "close"
  /\ turn[1] = 1 /\ FrameTypes(1) = <<"reasoning", "reasoning", "reasoning", "done">>

\* C9 (streaming path): a turn that is being processed always reaches its
\* end, whether or not the agent service answers.
C9_StreamCallCompletes ==
  \A c \in Conns : (pc[c] \notin {"open", "closed"}) ~> (pc[c] \in {"open", "closed"})

\* C9 (unary path): a pending unary call always comes to a response.
C9_UnaryCallCompletes ==
  \A u \in Unary : (upc[u] = "await") ~> (upc[u] = "done")

\* C10: every finished unary request was answered 200 with a ChatResponse
\* body, whatever the agent service did.
C10_AlwaysOk ==
  \A u \in Unary :
    upc[u] = "done" =>
      /\ uhttp[u].status = 200
      /\ DOMAIN uhttp[u].body = {"response", "reasoning", "artifacts", "citations"}

\* one request failed on the status, the other on the body
C10_Witness ==
  /\ upc[1] = "done" /\ uout[1].kind = "http" /\ uout[1].status = 500
  /\ upc[2] = "done" /\ uout[2].kind = "http" /\ uout[2].status = 200 /\ ~uout[2].json
  /\ uhttp[1].status = 200 /\ uhttp[2].status = 200

\* the unary request u ended in the Err arm of handle_chat
UnaryFailed(u) == upc[u] = "done" /\ ulog[u].kind # "none"

\* the elements of a sequence
Range(f) == {f[k] : k \in DOMAIN f}

\* C11: whatever the request and whatever the upstream failure, the fallback
\* text contains the request's query, there is exactly one reasoning step,
\* with index 1, kind "analysis" and the duration 100 ms, and artifacts and
\* citations are absent.
C11_FallbackShape ==
  \A u \in Unary :
    UnaryFailed(u) =>
      /\ ureq[u].query \in Range(uhttp[u].body.response)
      /\ Len(uhttp[u].body.reasoning) = 1
      /\ uhttp[u].body.reasoning[1].step = 1
      /\ uhttp[u].body.reasoning[1].step_type = "analysis"
      /\ uhttp[u].body.reasoning[1].duration_ms = Some(100)
      /\ uhttp[u].body.artifacts = None
      /\ uhttp[u].body.citations = None

\* two different queries, one failing on the transport, one on the body
C11_Witness ==
  /\ UnaryFailed(1) /\ ureq[1].query = "q1" /\ uout[1].kind = "transport"
  /\ UnaryFailed(2) /\ ureq[2].query = "q2" /\ ulog[2].kind = "ParseError"
  /\ uhttp[1].body.response = <<"Processing query: ", "q1">>
  /\ uhttp[2].body.response = <<"Processing query: ", "q2">>

\* C12: two failed runs of the same request answer the caller identically,
\* whatever the class and the detail of the two failures.
C12_NoFailureDetail ==
  \A u, v \in Unary :
    (UnaryFailed(u) /\ UnaryFailed(v) /\ ureq[u] = ureq[v]) => uhttp[u] = uhttp[v]

\* the same request failed once on the transport and once on the status
C12_Witness ==
  /\ UnaryFailed(1) /\ UnaryFailed(2) /\ ureq[1] = ureq[2]
  /\ ulog[1].kind = "ConnectionError" /\ ulog[2].kind = "ServiceError"
  /\ ulog[1].msg # ulog[2].msg
  /\ uhttp[1] = uhttp[2]

\* C13: a unary request has caused exactly one POST /chat from its arrival
\* on, also after the call failed; a streaming turn has caused none while
\* its message is undecodable or not yet posted, and exactly one from the
\* post on, also after the call failed.
C13_AtMostOnce ==
  /\ \A u \in Unary : ucalls[u] = (IF upc[u] = "idle" THEN 0 ELSE 1)
  /\ \A c \in Conns :
       turn[c] > 0 =>
         /\ Undecodable(inText[c]) => calls[c] = 0
         /\ ~Undecodable(inText[c]) => calls[c] = (IF pc[c] = "call" THEN 0 ELSE 1)
         /\ (outcome[c] # NoOutcome /\ UpstreamFailed(c)) => calls[c] = 1

\* a failed unary call, a failed streaming call whose turn is over, and an
\* undecodable message on the other connection
C13_Witness ==
  /\ UnaryFailed(1) /\ ucalls[1] = 1
  /\ TurnComplete(1) /\ UpstreamFailed(1) /\ calls[1] = 1
  /\ TurnComplete(2) /\ Undecodable(inText[2]) /\ calls[2] = 0
  /\ FrameTypes(1) = <<"error">> /\ FrameTypes(2) = <<"error">>

\* the deadline of the call of unary request u passed
DeadlineExceeded(u) == uout[u].kind \in {"timeout", "timeout_body"}

\* C14: a failed call is classified by its cause: ServiceError (BadStatus)
\* for a non-2xx status, ConnectionError (ConnectionFailed) for a transport
\* failure, Timeout for an exceeded deadline, ParseError (ParseFailed) for a
\* body that does not decode.
C14_ClassifiedByCause ==
  \A u \in Unary :
    UnaryFailed(u) =>
      /\ DeadlineExceeded(u) => ulog[u].kind = "Timeout"
      /\ uout[u].kind = "transport" => ulog[u].kind = "ConnectionError"
      /\ (uout[u].kind = "http" /\ ~IsSuccess(uout[u].status)) =>
           ulog[u].kind = "ServiceError"
      /\ (uout[u].kind = "http" /\ IsSuccess(uout[u].status)) =>
           ulog[u].kind = "ParseError"

\* the agent service answered, and the handler read a body it could not decode
ProxyDecodeFailed ==
  /\ pout.kind = "http"
  /\ proute = "get_project" => pout.status # 404
  /\ proute = "handle_action" => IsSuccess(pout.status)
  /\ ~Decodes(proute, pout.shape)

\* C15: a finished proxy request whose upstream call failed on the transport
\* was answered 503, and one whose upstream body could not be decoded was
\* answered 500.
C15_FailuresSurface ==
  ppc = "done" =>
    /\ pout.kind = "transport" => phttp.status = 503
    /\ ProxyDecodeFailed => phttp.status = 500

\* everything handle_socket holds for connection c
SessionState(c) ==
  <<pc[c], turn[c], lastMsg[c], inText[c], outcome[c], req[c], reply[c], idx[c],
    timer[c], errmsg[c], frames[c], calls[c], failed[c], posted[c]>>

\* C16: a step of one connection, a close, a receive error, a failed send, a
\* decode failure or an upstream failure included, leaves the state and the
\* frames of every other connection as they were; a connection is closed only
\* by a step of its own, so the end of one task ends no other.
C16_SessionsIsolated ==
  [][\A c \in Conns :
       SessionState(c)' # SessionState(c) =>
         \A d \in Conns \ {c} : SessionState(d)' = SessionState(d)]_vars

\* connection 1 went through an upstream failure and a receive error while
\* connection 2 streams its reply with every send delivered
C16_Witness ==
  /\ pc[1] = "closed" /\ lastMsg[1] = "error" /\ UpstreamFailed(1)
  /\ FrameTypes(1) = <<"error">> /\ ~AllSendsOk(1)
  /\ pc[2] = "d_sleep" /\ AllSendsOk(2)
  /\ FrameTypes(2) = <<"reasoning", "reasoning", "reasoning", "delta">>

\* connection c has a step of its own to take: it is neither waiting for
\* its client nor for the agent service
HasStep(c) == pc[c] \notin {"open", "closed", "await"}

\* C17: whatever the other connections are suspended in, a pacing delay or a
\* pending upstream call, a session with a step to take can take it and a
\* pending unary request can be answered; with the runtime polling every
\* task, each session goes on until it waits for its own upstream call or,
\* at the end of its turn, for its client, and each unary request is
\* answered.  Only a session's own pending call holds its turn.
C17_SuspensionBlocksOnlyItsTurn ==
  /\ [](\A c \in Conns : HasStep(c) => ENABLED SessionStep(c))
  /\ [](\A u \in Unary : upc[u] = "await" => ENABLED ChatTimeout(u))
  /\ \A c \in Conns : HasStep(c) ~> ~HasStep(c)
  /\ \A u \in Unary : (upc[u] = "await") ~> (upc[u] = "done")

\* connection 1 waits for the agent service; connection 2 has streamed a
\* whole reply and a unary request has been answered meanwhile
C17_Witness ==
  /\ pc[1] = "await" /\ turn[1] = 1
  /\ TurnComplete(2) /\ AllSendsOk(2)
  /\ FrameTypes(2) = <<"reasoning", "reasoning", "reasoning", "delta", "done">>
  /\ upc[1] = "done" /\ upc[2] = "done"

\* ---- a JSON reader, as the client of the socket has one
Punctuation == {"{", "}", ":", ","}

Escapes == {Quote, Backslash, "/", "b", "f", "n", "r", "t"}

Unescape(p) == IF p = "t" THEN "\t" ELSE IF p = "n" THEN "\n" ELSE p

IsLiteral(p) == p \in {"null", "true", "false"} \cup {ToString(n) : n \in 0..9}

\* the tokens of a text: strings (unescaped), literals and punctuation
RECURSIVE LexFrom(_, _, _, _, _)
LexFrom(w, i, inStr, cur, acc) ==
  IF i > Len(w) THEN [ok |-> ~inStr, toks |-> acc]
  ELSE IF inStr
    THEN IF w[i] = Quote
           THEN LexFrom(w, i + 1, FALSE, <<>>, Append(acc, [t |-> "str", v |-> cur]))
         ELSE IF w[i] = Backslash
           THEN IF i < Len(w) /\ w[i + 1] \in Escapes
                  THEN LexFrom(w, i + 2, TRUE, Append(cur, Unescape(w[i + 1])), acc)
                  ELSE [ok |-> FALSE, toks |-> acc]
         ELSE IF w[i] \in {"\t", "\n"}
           THEN [ok |-> FALSE, toks |-> acc]
         ELSE LexFrom(w, i + 1, TRUE, Append(cur, w[i]), acc)
  ELSE IF w[i] = Quote
    THEN LexFrom(w, i + 1, TRUE, <<>>, acc)
  ELSE IF w[i] \in Punctuation
    THEN LexFrom(w, i + 1, FALSE, <<>>, Append(acc, [t |-> "punct", v |-> <<w[i]>>]))
  ELSE IF IsLiteral(w[i])
    THEN LexFrom(w, i + 1, FALSE, <<>>, Append(acc, [t |-> "lit", v |-> <<w[i]>>]))
  ELSE [ok |-> FALSE, toks |-> acc]

NoValue == [k |-> "none", s |-> <<>>, keys |-> <<>>, vals |-> <<>>]

IsPunct(toks, i, p) == i <= Len(toks) /\ toks[i].t = "punct" /\ toks[i].v = <<p>>

\* a value is a string, a literal or an object of members
RECURSIVE ParseValue(_, _)
RECURSIVE ParseMembers(_, _, _, _)
ParseValue(toks, i) ==
  IF i > Len(toks) THEN [ok |-> FALSE, next |-> i, val |-> NoValue]
  ELSE IF toks[i].t \in {"str", "lit"}
    THEN [ok |-> TRUE, next |-> i + 1,
          val |-> [k |-> toks[i].t, s |-> toks[i].v, keys |-> <<>>, vals |-> <<>>]]
  ELSE IF IsPunct(toks, i, "{")
    THEN IF IsPunct(toks, i + 1, "}")
           THEN [ok |-> TRUE, next |-> i + 2,
                 val |-> [k |-> "obj", s |-> <<>>, keys |-> <<>>, vals |-> <<>>]]
           ELSE ParseMembers(toks, i + 1, <<>>, <<>>)
  ELSE [ok |-> FALSE, next |-> i, val |-> NoValue]

ParseMembers(toks, i, keys, vals) ==
  IF i > Len(toks) \/ toks[i].t # "str" \/ ~IsPunct(toks, i + 1, ":")
    THEN [ok |-> FALSE, next |-> i, val |-> NoValue]
  ELSE LET r == ParseValue(toks, i + 2) IN
    IF ~r.ok THEN [ok |-> FALSE, next |-> i, val |-> NoValue]
    ELSE IF IsPunct(toks, r.next, ",")
      THEN ParseMembers(toks, r.next + 1, Append(keys, toks[i].v), Append(vals, r.val))
    ELSE IF IsPunct(toks, r.next, "}")
      THEN [ok |-> TRUE, next |-> r.next + 1,
            val |-> [k |-> "obj", s |-> <<>>,
                     keys |-> Append(keys, toks[i].v), vals |-> Append(vals, r.val)]]
    ELSE [ok |-> FALSE, next |-> i, val |-> NoValue]

\* the document a text is, if it is one
ParseJson(w) ==
  LET l == LexFrom(w, 1, FALSE, <<>>, <<>>) IN
    IF ~l.ok THEN [ok |-> FALSE, val |-> NoValue]
    ELSE LET r == ParseValue(l.toks, 1) IN
      IF r.ok /\ r.next = Len(l.toks) + 1
        THEN [ok |-> TRUE, val |-> r.val]
        ELSE [ok |-> FALSE, val |-> NoValue]

\* the value of member key of an object
Member(val, key) ==
  LET at == {j \in 1..Len(val.keys) : val.keys[j] = <<key>>} IN
    IF at = {} THEN NoValue ELSE val.vals[CHOOSE j \in at : TRUE]

FrameTypeNames == {<<"reasoning">>, <<"delta">>, <<"artifact">>, <<"done">>, <<"error">>}

\* the text of frame f is a JSON object with a type of the protocol, and an
\* error frame is {"type":"error","message":<the error text>}
WellFormedFrame(f) ==
  LET p == ParseJson(WireText(f)) IN
    /\ p.ok /\ p.val.k = "obj"
    /\ Member(p.val, "type").k = "str"
    /\ Member(p.val, "type").s \in FrameTypeNames
    /\ f.type = "error" =>
         /\ p.val.keys = << <<"type">>, <<"message">> >>
         /\ Member(p.val, "message").k = "str"
         /\ Member(p.val, "message").s = f.message[1]

\* C18: every frame sent is a well-formed JSON document with a type of the
\* protocol, and every error frame has the shape {"type":"error","message":
\* <string>} with the error text as its message, whatever that text contains.
C18_FramesAreJson ==
  \A c \in Conns : \A k \in 1..Len(frames[c]) : WellFormedFrame(frames[c][k].frame)

\* the unary request u ended in the Ok arm of handle_chat
UnarySucceeded(u) == upc[u] = "done" /\ ulog[u].kind = "none"

\* the list a member of the upstream body stands for: none when it is absent
UpstreamList(member) == IF member = None THEN <<>> ELSE member[1]

\* C19: in the response to a successful call, artifacts is absent exactly
\* when the upstream artifact list is empty and else holds the same artifacts
\* in the same order; citations likewise; neither is present and empty.
C19_EmptyListsAbsent ==
  \A u \in Unary :
    UnarySucceeded(u) =>
      LET artifacts == UpstreamList(uout[u].body.artifacts)
          citations == UpstreamList(uout[u].body.citations)
      IN /\ (uhttp[u].body.artifacts = None) <=> (artifacts = <<>>)
         /\ artifacts # <<>> => uhttp[u].body.artifacts = Some(artifacts)
         /\ (uhttp[u].body.citations = None) <=> (citations = <<>>)
         /\ citations # <<>> => uhttp[u].body.citations = Some(citations)
         /\ uhttp[u].body.artifacts # Some(<<>>)
         /\ uhttp[u].body.citations # Some(<<>>)

\* one reply with two artifacts and an empty citation list, one with no
\* artifacts member and two citations
C19_Witness ==
  /\ UnarySucceeded(1) /\ UnarySucceeded(2)
  /\ uout[1].body.artifacts = Some(<<Artifact1, Artifact2>>)
  /\ uout[1].body.citations = Some(<<>>)
  /\ uhttp[1].body.artifacts = Some(<<Artifact1, Artifact2>>)
  /\ uhttp[1].body.citations = None
  /\ uout[2].body.artifacts = None
  /\ uout[2].body.citations = Some(<<"cite1", "cite2">>)
  /\ uhttp[2].body.artifacts = None
  /\ uhttp[2].body.citations = Some(<<"cite1", "cite2">>)

\* C20: the reasoning of the response to a successful call has as many steps
\* as the upstream reply, in the same order, each with the same index, kind,
\* content and optional duration.
C20_ReasoningUnchanged ==
  \A u \in Unary :
    UnarySucceeded(u) =>
      LET upstream == uout[u].body.reasoning[1]
          returned == uhttp[u].body.reasoning
      IN /\ Len(returned) = Len(upstream)
         /\ \A k \in 1..Len(upstream) :
              /\ returned[k].step = upstream[k].step
              /\ returned[k].step_type = upstream[k].step_type
              /\ returned[k].content = upstream[k].content
              /\ returned[k].duration_ms = upstream[k].duration_ms

\* a reply with two steps, one with a duration and one without
C20_Witness ==
  /\ UnarySucceeded(1)
  /\ uout[1].body.reasoning = Some(<<Step1, Step2>>)
  /\ uhttp[1].body.reasoning = <<Step1, Step2>>
  /\ uhttp[1].body.reasoning[1].duration_ms = Some(5)
  /\ uhttp[1].body.reasoning[2].duration_ms = None

\* everything handle_chat holds for unary request u
UnaryState(u) == <<upc[u], ureq[u], ubody[u], ucalls[u], uout[u], ulog[u], uhttp[u]>>

\* C21: two answered unary requests with the same request and the same
\* outcome of their own upstream call have the same response, in whatever
\* order they arrived and were answered; and a step of one request leaves
\* every other request as it was.
C21_UnaryIndependent ==
  /\ [](\A u, v \in Unary :
          (upc[u] = "done" /\ upc[v] = "done" /\ ureq[u] = ureq[v] /\ uout[u] = uout[v])
            => uhttp[u] = uhttp[v])
  /\ [][\A u \in Unary :
          UnaryState(u)' # UnaryState(u) =>
            \A v \in Unary \ {u} : UnaryState(v)' = UnaryState(v)]_vars

\* the same request failed twice in the same way, and was answered alike
C21_Witness ==
  /\ upc[1] = "done" /\ upc[2] = "done"
  /\ ureq[1] = ureq[2] /\ ureq[1].query = "q2"
  /\ uout[1] = uout[2] /\ uout[1].kind = "transport"
  /\ uhttp[1] = uhttp[2]
  /\ uhttp[1].body.response = <<"Processing query: ", "q2">>

IsReasoning(e) == e.frame.type = "reasoning"

\* the reasoning updates of the turn, in emission order
ReasoningUpdates(c) ==
  LET rs == SelectSeq(frames[c], IsReasoning) IN
    [k \in 1..Len(rs) |-> rs[k].frame.reasoning[1]]

ReasoningKinds == <<"analysis", "retrieval", "synthesis">>

\* C22 as claimed: a completed turn whose upstream call succeeded has sent
\* three Reasoning frames, with the steps 1, 2, 3 and the three kinds.
C22_AsClaimed ==
  \A c \in Conns :
    (TurnComplete(c) /\ UpstreamSucceeded(c)) =>
      /\ Len(ReasoningUpdates(c)) = 3
      /\ \A k \in 1..3 :
           /\ ReasoningUpdates(c)[k].step = k
           /\ ReasoningUpdates(c)[k].step_type = ReasoningKinds[k]

\* C22 amended: in a turn whose upstream call succeeded, the k-th Reasoning
\* frame sent has step k and the k-th of the kinds analysis, retrieval,
\* synthesis, whatever the request and the reply; a completed turn without a
\* failed send has sent exactly three; and a Reasoning frame whose send
\* succeeded is followed by a sleep of 200 ms.
C22_ReasoningSteps ==
  /\ [](\A c \in Conns :
          UpstreamSucceeded(c) =>
            /\ Len(ReasoningUpdates(c)) <= 3
            /\ \A k \in 1..Len(ReasoningUpdates(c)) :
                 /\ ReasoningUpdates(c)[k].step = k
                 /\ ReasoningUpdates(c)[k].step_type = ReasoningKinds[k]
            /\ (TurnComplete(c) /\ AllSendsOk(c)) => Len(ReasoningUpdates(c)) = 3
            /\ pc[c] = "r_sleep" => timer[c] = 200)
  /\ [][\A c \in Conns :
          (/\ Len(frames'[c]) = Len(frames[c]) + 1
           /\ IsReasoning(frames'[c][Len(frames'[c])])
           /\ frames'[c][Len(frames'[c])].ok)
            => (pc'[c] = "r_sleep" /\ timer'[c] = 200)]_vars

\* the third Reasoning frame has been sent and its sleep is running
C22_Witness ==
  /\ UpstreamSucceeded(1) /\ AllSendsOk(1)
  /\ pc[1] = "r_sleep" /\ timer[1] = 200
  /\ Len(ReasoningUpdates(1)) = 3
  /\ ReasoningUpdates(1)[3].step = 3 /\ ReasoningUpdates(1)[3].step_type = "synthesis"
  /\ req[1].query = "q2"

\* C23: while the sleep after the Delta frame of word index i runs, its
\* length is 30 + (i mod 50) ms, which is within 30..79 and, from index 50
\* on, the length of the sleep after word i - 50; checked up to MaxWords
\* words.
C23_DeltaDelay ==
  \A c \in Conns :
    pc[c] = "d_sleep" =>
      LET i == Len(DeltaContents(c)) - 1 IN
        /\ i >= 0
        /\ timer[c] = 30 + (i % 50)
        /\ timer[c] \in 30..79
        /\ i >= 50 => timer[c] = 30 + ((i - 50) % 50)

\* the sleep after the 51st word, index 50, is 30 ms again
C23_Witness ==
  /\ pc[1] = "d_sleep" /\ AllSendsOk(1)
  /\ Len(DeltaContents(1)) = 51
  /\ timer[1] = 30

\* C24: a failed upstream call does not end the connection: its turn is the
\* one Error frame, after which the session is open and reads the next
\* message; a request that follows starts with no frame, no call and no
\* outcome carried over, and on a connection that has had a failed call a
\* turn whose own call succeeds and whose sends succeed posts exactly once
\* and is the Reasoning, Delta, Done sequence of its own reply.
C24_FailureKeepsSession ==
  /\ [](\A c \in Conns :
          /\ (lastMsg[c] = "text" /\ pc[c] = "open" /\ UpstreamFailed(c)) =>
               /\ FrameTypes(c) = <<"error">>
               /\ failed[c]
               /\ turn[c] < MaxTurns => ENABLED RecvText(c)
          /\ (failed[c] /\ TurnComplete(c) /\ UpstreamSucceeded(c) /\ AllSendsOk(c)) =>
               /\ calls[c] = 1
               /\ reply[c] = CallAgentStream(outcome[c]).text
               /\ FrameTypes(c) = ExpectedTypes(reply[c]))
  /\ [][\A c \in Conns :
          /\ (pc[c] = "err_send" /\ pc'[c] # pc[c]) => pc'[c] = "open"
          /\ (failed[c] /\ turn'[c] # turn[c]) =>
               /\ frames'[c] = <<>> /\ calls'[c] = 0 /\ outcome'[c] = NoOutcome
               /\ DecodeStreamRequest(inText'[c]).ok => pc'[c] = "call"
          /\ (failed[c] /\ pc[c] = "call" /\ pc'[c] # pc[c]) =>
               pc'[c] = "await" /\ calls'[c] = 1]_vars

\* the second turn of a connection whose first call failed, run to its end
C24_Witness ==
  /\ failed[1] /\ turn[1] = 2 /\ pc[1] = "open"
  /\ UpstreamSucceeded(1) /\ AllSendsOk(1)
  /\ Len(DeltaContents(1)) = 2
  /\ FrameTypes(1) = ExpectedTypes(reply[1])

\* the history entries the caller put into the text message of this turn
CallerHistory(c) ==
  IF inText[c].history = None THEN <<>> ELSE inText[c].history[1].array

SomeSendFailed(c) == \E k \in 1..Len(frames[c]) : ~frames[c][k].ok

\* C26: a closed session was closed by a Close message, a receive error or
\* the end of the inbound stream, read while it was open; no step that sends a
\* frame, failed or not, and no decode or upstream failure closes it.  A
\* turn in which a send failed goes on to its end, where the session is open
\* again and can read the next message.
C26_ClosedOnlyByPeer ==
  /\ [](\A c \in Conns :
          /\ pc[c] = "closed" <=> lastMsg[c] \in {"close", "error", "end"}
          /\ (pc[c] = "open" /\ SomeSendFailed(c)) =>
               /\ ENABLED RecvClose(c) /\ ENABLED RecvOther(c)
               /\ turn[c] < MaxTurns => ENABLED RecvText(c))
  /\ [][\A c \in Conns :
          /\ (pc[c] # "closed" /\ pc'[c] = "closed") =>
               pc[c] = "open" /\ lastMsg'[c] \in {"close", "error", "end"}
          /\ (frames'[c] # frames[c] \/ pc[c] \in {"decode_err", "err_send", "await"}) =>
               pc'[c] # "closed"]_vars
  /\ \A c \in Conns : (SomeSendFailed(c) /\ pc[c] # "closed") ~> (pc[c] = "open")

\* a turn whose second Delta send failed has ended and the session is open
C26_Witness ==
  /\ pc[1] = "open" /\ lastMsg[1] = "text"
  /\ FrameTypes(1) = <<"reasoning", "reasoning", "reasoning", "delta", "delta", "done">>
  /\ ~frames[1][5].ok

\* C27: while the call of a turn is to be made or pending, no frame of the
\* turn has been sent; every frame of a decodable turn is sent after the one
\* call of that turn has returned, and the outcome does not change while
\* frames are sent; the text the Delta frames are cut from is the text that
\* this call returned.
C27_CallBeforeFrames ==
  /\ [](\A c \in Conns :
          /\ pc[c] \in {"call", "await"} => frames[c] = <<>>
          /\ (frames[c] # <<>> /\ ~Undecodable(inText[c])) =>
               /\ calls[c] = 1 /\ outcome[c] # NoOutcome
               /\ reply[c] = CallAgentStream(outcome[c]).text
               /\ \A k \in 1..Len(DeltaContents(c)) :
                    DeltaContents(c)[k] =
                      DeltaText(k - 1, SplitWhitespace(CallAgentStream(outcome[c]).text)[k]))
  /\ [][\A c \in Conns :
          /\ (frames'[c] # frames[c] /\ frames'[c] # <<>>) =>
               outcome'[c] = outcome[c] /\ reply'[c] = reply[c] /\ calls'[c] = calls[c]
          /\ outcome'[c] \notin {outcome[c], NoOutcome} =>
               pc[c] = "await" /\ frames[c] = <<>> /\ frames'[c] = <<>>]_vars

\* the second turn streams the words of its own reply, not those of the first
C27_Witness ==
  /\ turn[1] = 2 /\ pc[1] = "d_sleep" /\ calls[1] = 1
  /\ outcome[1].response = Some(<<"a", " ", "a", "a">>)
  /\ Len(DeltaContents(1)) = 2

\* C28: reading a message that is neither Text nor Close (Binary, Ping, Pong)
\* sends no frame, makes no upstream call, starts no turn and changes nothing
\* of the turn before it; the session is open before and after, and the next
\* message can be read.
C28_OtherIgnored ==
  /\ [](\A c \in Conns :
          lastMsg[c] = "other" =>
            /\ pc[c] = "open"
            /\ ENABLED RecvClose(c) /\ ENABLED RecvOther(c)
            /\ turn[c] < MaxTurns => ENABLED RecvText(c))
  /\ [][\A c \in Conns :
          (lastMsg'[c] = "other" /\ lastMsg[c] # "other") =>
            /\ pc[c] = "open" /\ pc'[c] = "open"
            /\ frames'[c] = frames[c] /\ calls'[c] = calls[c] /\ posted'[c] = posted[c]
            /\ turn'[c] = turn[c] /\ outcome'[c] = outcome[c] /\ reply'[c] = reply[c]
            /\ inText'[c] = inText[c] /\ req'[c] = req[c]]_vars

\* a ping read after a complete turn: the frames of the turn are as they were
C28_Witness ==
  /\ lastMsg[1] = "other" /\ pc[1] = "open" /\ turn[1] = 1 /\ calls[1] = 1
  /\ FrameTypes(1) = <<"reasoning", "reasoning", "reasoning", "delta", "done">>

\* the agent service answered 2xx with a JSON body that has no string member
\* named response
NoResponseMember(c) == UpstreamSucceeded(c) /\ outcome[c].response = None

\* C29: a 2xx answer whose JSON body has no string member response is a
\* success: the text of the turn is the default text, no Error frame is sent
\* and the Err arm is not taken; with every send successful the turn is three
\* Reasoning frames, one Delta per word of the default text and Done.
C29_DefaultText ==
  \A c \in Conns :
    NoResponseMember(c) =>
      /\ reply[c] = DefaultText
      /\ pc[c] # "err_send"
      /\ \A k \in 1..Len(frames[c]) : frames[c][k].frame.type # "error"
      /\ (TurnComplete(c) /\ AllSendsOk(c)) =>
           /\ FrameTypes(c) = ExpectedTypes(DefaultText)
           /\ Len(DeltaContents(c)) = 6
           /\ Flatten(DeltaContents(c)) = DefaultText

\* the turn over the default text, run to its end
C29_Witness ==
  /\ NoResponseMember(1) /\ TurnComplete(1) /\ AllSendsOk(1)
  /\ Len(frames[1]) = 10
  /\ DeltaContents(1)[6] = <<" ", "h", "e", "l", "p", "?">>

\* the tool, app, project, endpoint and search routes of tools.rs
ToolRoutes == ProxyRoutes \ {"handle_action"}

\* the agent service answered with a body that decodes as the type the route
\* reads
DecodableAnswer == pout.kind = "http" /\ Decodes(proute, pout.shape)

\* C30: a route of tools.rs relays a decodable body as HTTP 200 whatever the
\* status of the agent service was, 404 and 500 included; only get_project
\* answers an upstream 404 with 404, and only list_endpoints without a
\* projectId answers 400, having sent no request to the agent service.
C30_StatusNotInspected ==
  (ppc = "done" /\ proute \in ToolRoutes) =>
    /\ (DecodableAnswer /\ ~(proute = "get_project" /\ pout.status = StatusNotFound)) =>
         /\ phttp.status = StatusOk
         /\ phttp.json = Some([shape |-> pout.shape, success |-> pout.success])
    /\ phttp.status = StatusNotFound <=>
         (proute = "get_project" /\ pout.kind = "http" /\ pout.status = StatusNotFound)
    /\ phttp.status = StatusBadRequest <=> (proute = "list_endpoints" /\ pquery = None)
    /\ (proute = "list_endpoints" /\ pquery = None) => (pcalls = 0 /\ pout = NoProxyOutcome)
    /\ ~(proute = "list_endpoints" /\ pquery = None) => pcalls = 1

\* list_tools relays the tool list of a 500 answer as 200
C30_Witness ==
  /\ ppc = "done" /\ proute = "list_tools"
  /\ pout.kind = "http" /\ pout.status = StatusInternalServerError /\ pout.shape = "tools"
  /\ phttp.status = StatusOk

====
